---- MODULE Spec2Model ----
(***************************************************************************)
(* Zoom-to-Slack webhook pipeline (app.py, zoom_utils.py, openai_utils.py, *)
(* slack_utils.py).                                                        *)
(*                                                                         *)
(* Text is modelled symbolically.  A JSON body is a sequence of tokens     *)
(* (punctuation, one blank, and atoms standing for compact JSON values).   *)
(* HMAC-SHA256 is a collision-free constructor over (key, message): two    *)
(* digests are equal exactly when key and message are equal.  The parsed   *)
(* request body is an insertion-ordered dict (a sequence of key/value      *)
(* pairs); every other Python dict is a function whose DOMAIN is its key   *)
(* set, so d.get(k, default) and d[k] (KeyError) are distinguished.        *)
(***************************************************************************)
EXTENDS Integers, Sequences, FiniteSets, TLC

VARIABLES
    request,              \* the inbound HTTP request: [body, headers]
    now,                  \* wall-clock time (Unix seconds)
    pc,                   \* position of the handler / of the function under test
    data,                 \* app.py: data = request.get_json()
    recording_url,        \* app.py local
    download_token,       \* app.py local
    participants,         \* app.py local
    recording_file_path,  \* app.py local
    temp_file,            \* zoom_utils.py: temp_file.name of the attempt under way
    transcript,           \* app.py local
    fixture,              \* what the external providers answer when asked
    meeting_summary,      \* app.py local
    slack_channel,        \* app.py local
    channel_id,           \* app.py local
    recording_summary,    \* app.py local: the message text
    success,              \* app.py local: result of post_to_slack
    files,                \* temporary files present on local storage
    channels,             \* public channels of the Slack workspace
    posts,                \* messages accepted by Slack: <<[channel, text], ...>>
    calls,                \* outbound stage calls made so far, in order
    fault,                \* exception caught at the handler's outer boundary
    response,             \* the HTTP response: [status, message]
    v_in,                 \* validate_zoom_webhook under test: its arguments
    v_out,                \* validate_zoom_webhook under test: its result
    attempts,             \* download_recording: what each requests.get met, in order
    ZOOM_ACCESS_TOKEN,    \* zoom_utils.py module global: the cached token
    ZOOM_TOKEN_EXPIRY,    \* zoom_utils.py module global: when to refresh it
    access_token,         \* what get_valid_zoom_access_token last returned
    headers,              \* what get_zoom_headers last did
    callers,              \* concurrent callers of ensure_default_channel_exists
    threads,              \* concurrent callers of get_valid_zoom_access_token
    listing               \* get_all_public_channels: the cursor loop

vars == <<request, now, pc, data, recording_url, download_token, participants,
          recording_file_path, temp_file, transcript, fixture, meeting_summary,
          slack_channel, channel_id, recording_summary, success, files,
          channels, posts, calls, fault, response, v_in, v_out,
          attempts, ZOOM_ACCESS_TOKEN, ZOOM_TOKEN_EXPIRY, access_token, headers,
          callers, threads, listing>>

\* state of the functions exercised on their own
moreVars == <<threads, listing>>
unitVars == <<ZOOM_ACCESS_TOKEN, ZOOM_TOKEN_EXPIRY, access_token, headers, callers,
              moreVars>>

handlerVars == <<request, now, data, recording_url, download_token, participants,
          recording_file_path, temp_file, transcript, fixture, meeting_summary,
          slack_channel, channel_id, recording_summary, success, files,
          channels, posts, calls, fault, response, attempts>>

(***************************************************************************)
(* Python values                                                           *)
(***************************************************************************)
None == "<None>"

\* d.get(k, default) on a dict
Get(d, k, default) == IF k \in DOMAIN d THEN d[k] ELSE default

\* the dict {} (no keys)
EmptyDict == [k \in {} |-> None]

(***************************************************************************)
(* Signature verification: zoom_utils.validate_zoom_webhook                *)
(***************************************************************************)
\* hmac.new(key, msg, sha256).hexdigest(); tweak 0 is the digest itself,
\* any other tweak is the same hex string with one character changed.
HMAC_SHA256(key, msg) == [key |-> key, msg |-> msg, tweak |-> 0]

\* f"v0:{timestamp}:{payload}"
SignedMessage(timestamp, payload) ==
    [version |-> "v0:", timestamp |-> timestamp, payload |-> payload]

\* f"v0={hash_digest}"
ExpectedSignature(signing_secret, timestamp, payload) ==
    [prefix |-> "v0=",
     digest |-> HMAC_SHA256(signing_secret, SignedMessage(timestamp, payload)),
     ascii  |-> TRUE]

\* hmac.compare_digest(a, b) on two str: raises TypeError when either holds
\* a non-ASCII character, else plain equality.
compare_digest_raises(a, b) == ~a.ascii \/ ~b.ascii
compare_digest(a, b) == a = b

\* a verifier that checks the message and not the key
validate_zoom_webhook_anykey(signing_secret, signature, timestamp, payload) ==
    signature.ascii /\ signature.prefix = "v0=" /\ signature.digest.tweak = 0
    /\ signature.digest.msg = SignedMessage(timestamp, payload)

\* a verifier that checks key and timestamp and not the body
validate_zoom_webhook_anybody(signing_secret, signature, timestamp, payload) ==
    signature.ascii /\ signature.prefix = "v0=" /\ signature.digest.tweak = 0
    /\ signature.digest.key = signing_secret
    /\ signature.digest.msg.timestamp = timestamp

validate_zoom_webhook(signing_secret, signature, timestamp, payload) ==
    LET expected_signature == ExpectedSignature(signing_secret, timestamp, payload)
    IN  IF compare_digest_raises(expected_signature, signature)
        THEN FALSE      \* except Exception: return False
        ELSE compare_digest(expected_signature, signature)

(***************************************************************************)
(* JSON text: request.get_json() and json.dumps(data, separators=(',',':')) *)
(***************************************************************************)
Blank == " "
Punct == {"{", "}", ":", ","}
IsAtom(t) == t \notin (Punct \cup {Blank})

\* insignificant whitespace between tokens is dropped by the parser
strip(raw) == SelectSeq(raw, LAMBDA t : t # Blank)

\* a flat JSON object: { k : v , k : v ... }
IsObjectText(s) ==
    /\ Len(s) >= 2
    /\ s[1] = "{"
    /\ s[Len(s)] = "}"
    /\ \/ Len(s) = 2
       \/ /\ (Len(s) - 1) % 4 = 0
          /\ \A i \in 2..(Len(s) - 1) :
                LET j == (i - 2) % 4
                IN  CASE j = 0 -> IsAtom(s[i])
                      [] j = 1 -> s[i] = ":"
                      [] j = 2 -> IsAtom(s[i])
                      [] j = 3 -> s[i] = ","

ObjectPairs(s) == [n \in 1..((Len(s) - 1) \div 4) |-> <<s[4 * n - 2], s[4 * n]>>]

\* a Python dict built from pairs, in insertion order: a repeated key keeps
\* its first position and takes the last value
RECURSIVE dict_from_pairs(_)
dict_from_pairs(ps) ==
    IF ps = <<>> THEN <<>>
    ELSE LET init == dict_from_pairs(SubSeq(ps, 1, Len(ps) - 1))
             last == ps[Len(ps)]
         IN  IF \E i \in 1..Len(init) : init[i][1] = last[1]
             THEN [i \in 1..Len(init) |-> IF init[i][1] = last[1] THEN last ELSE init[i]]
             ELSE Append(init, last)

json_valid(raw) == IsObjectText(strip(raw))
json_loads(raw) == dict_from_pairs(ObjectPairs(strip(raw)))

RECURSIVE json_dumps_items(_)
json_dumps_items(d) ==
    IF d = <<>> THEN <<>>
    ELSE IF Len(d) = 1 THEN <<d[1][1], ":", d[1][2]>>
    ELSE <<d[1][1], ":", d[1][2], ",">> \o json_dumps_items(Tail(d))

\* json.dumps(data) with the default separators (', ', ': '): what a sender
\* that does not compact its JSON puts on the wire
RECURSIVE json_dumps_spaced_items(_)
json_dumps_spaced_items(d) ==
    IF d = <<>> THEN <<>>
    ELSE IF Len(d) = 1 THEN <<d[1][1], ":", Blank, d[1][2]>>
    ELSE <<d[1][1], ":", Blank, d[1][2], ",", Blank>> \o json_dumps_spaced_items(Tail(d))

json_dumps_spaced(d) == <<"{">> \o json_dumps_spaced_items(d) \o <<"}">>

\* json.dumps(data, separators=(',', ':'))
json_dumps(d) == <<"{">> \o json_dumps_items(d) \o <<"}">>

\* the parsed body as a dict: keys and key lookup
DictKeys(d) == {d[i][1] : i \in 1..Len(d)}
DictItem(d, k) == LET i == CHOOSE i \in 1..Len(d) : d[i][1] = k IN d[i][2]
DictGet(d, k, default) == IF k \in DictKeys(d) THEN DictItem(d, k) ELSE default

(***************************************************************************)
(* Webhook payloads.  The value of "payload" is an atom naming a compact   *)
(* nested JSON object; PayloadValue gives its parsed value.                *)
(***************************************************************************)
MP4File == [file_type |-> "MP4", download_url |-> "https://zoom.us/rec/play.mp4",
            download_token |-> "file-token"]
M4AFile == [file_type |-> "M4A", download_url |-> "https://zoom.us/rec/audio.m4a",
            download_token |-> "file-token"]
ChatFile == [file_type |-> "CHAT", download_url |-> "https://zoom.us/rec/chat.txt",
             download_token |-> "file-token"]
MP4FileNoToken == [file_type |-> "MP4", download_url |-> "https://zoom.us/rec/play.mp4"]

StartTime == <<"2024-05-01", "T", "10:00:00", "Z">>

FullInfo(recs) ==
    [id |-> "m-1", uuid |-> "uuid-1", topic |-> "Q3 roadmap",
     host_email |-> "host@example.com", start_time |-> StartTime,
     duration |-> "30", play_passcode |-> "pass-1", recording_files |-> recs]

PayloadAtoms == {"pl_mp4", "pl_chat_mp4", "pl_m4a", "pl_chat_only", "pl_nofiles", "pl_bare",
                 "pl_nouuid", "pl_meeting_token", "pl_noobject"}

\* the payload of an endpoint.url_validation event
ValidationPayload == [plainToken |-> "plain-token-1"]

PayloadValue(atom) ==
    CASE atom = "pl_mp4"      -> [object |-> FullInfo(<<MP4File>>)]
      [] atom = "pl_chat_mp4" -> [object |-> FullInfo(<<ChatFile, MP4File>>)]
      [] atom = "pl_m4a"      -> [object |-> FullInfo(<<ChatFile, M4AFile>>)]
      [] atom = "pl_chat_only" -> [object |-> FullInfo(<<ChatFile>>)]
      [] atom = "pl_nofiles"  -> [object |-> FullInfo(<<>>)]
      [] atom = "pl_bare"     -> [object |-> [uuid |-> "uuid-2",
                                              recording_files |-> <<MP4File>>]]
      [] atom = "pl_nouuid"   -> [object |-> [id |-> "m-3",
                                              recording_files |-> <<MP4File>>]]
      [] atom = "pl_meeting_token" ->
            [object |-> [id |-> "m-4", uuid |-> "uuid-4", topic |-> "Standup",
                         download_token |-> "meeting-token",
                         recording_files |-> <<MP4FileNoToken>>]]
      [] atom = "pl_validation" -> ValidationPayload
      [] OTHER                -> EmptyDict

EventAtoms == {"recording.completed", "endpoint.url_validation", "meeting.started"}

\* the bodies a provider may send: the same object compact, with blanks after
\* the separators, or with its keys in the other order; plus degenerate ones
BodyTexts ==
    LET completed == {<<<<"event", "recording.completed">>, <<"payload", p>>>> :
                        p \in PayloadAtoms}
        others == {<<<<"event", e>>,
                     <<"payload", IF e = "endpoint.url_validation"
                                  THEN "pl_validation" ELSE "pl_mp4">>>> : e \in EventAtoms}
        reordered == {<<<<"payload", p>>, <<"event", "recording.completed">>>> :
                        p \in {"pl_mp4", "pl_nofiles"}}
    IN  {json_dumps(o) : o \in completed \cup others \cup reordered}
        \cup {json_dumps_spaced(o) : o \in {ob \in completed : ob[2][2] \in {"pl_mp4", "pl_nofiles"}}}
        \cup { <<"{", "}">>,
               <<"{", "event", ":", "recording.completed", "}">>,
               <<"{", "event", ":">> }

(***************************************************************************)
(* Fields the handler reads from the verified body (app.py 79-130)         *)
(***************************************************************************)
\* str(x)
str(x) == IF x = None THEN "None" ELSE x

\* "not x" on a str or None
Falsy(x) == x \in {None, ""}

HasRecordingInfo(d) ==
    /\ "payload" \in DictKeys(d)
    /\ "object" \in DOMAIN PayloadValue(DictItem(d, "payload"))

recording_info(d) == PayloadValue(DictItem(d, "payload")).object
meeting_topic(d) == Get(recording_info(d), "topic", "No topic")
meeting_id(d) == str(Get(recording_info(d), "id", None))
meeting_uuid(d) == Get(recording_info(d), "uuid", None)
host_email(d) == Get(recording_info(d), "host_email", "No host email provided")
recording_files(d) == Get(recording_info(d), "recording_files", <<>>)
duration(d) == Get(recording_info(d), "duration", "Unknown Duration")

\* 'Unknown DateTime' holds a 'T' and no 'Z'
start_time(d) == Get(recording_info(d), "start_time", <<"Unknown Date", "T", "ime">>)
Contains(text, token) == \E i \in 1..Len(text) : text[i] = token
meeting_date(d) ==
    IF Contains(start_time(d), "T") /\ Contains(start_time(d), "Z")
    THEN start_time(d)[1] ELSE "Unknown Date"
meeting_time(d) ==
    IF Contains(start_time(d), "T") /\ Contains(start_time(d), "Z")
    THEN start_time(d)[3] ELSE "Unknown Time"

\* the loop of app.py 102-106: the first file whose file_type is 'MP4'
SelectedFile(fs) ==
    IF \E i \in 1..Len(fs) : Get(fs[i], "file_type", None) = "MP4"
    THEN LET i == CHOOSE i \in 1..Len(fs) :
                    /\ Get(fs[i], "file_type", None) = "MP4"
                    /\ \A j \in 1..(i - 1) : Get(fs[j], "file_type", None) # "MP4"
         IN  [recording_url |-> Get(fs[i], "download_url", None),
              download_token |-> Get(fs[i], "download_token", None)]
    ELSE [recording_url |-> None, download_token |-> None]

(***************************************************************************)
(* Call binding.  Python raises TypeError at the call when a keyword is    *)
(* not a parameter of the callee or a required parameter gets no argument. *)
(***************************************************************************)
\* def generate_summary(...)  (openai_utils.py 125)
generate_summary_params == {"transcript", "meeting_title", "host_email", "meeting_id",
                            "meeting_date", "meeting_time", "duration"}
\* the keywords of the call in app.py 145-154
generate_summary_call == {"transcript", "meeting_title", "host_email", "meeting_id",
                          "meeting_date", "meeting_time", "participants", "duration"}
KeywordsBind(keywords, params) == keywords \subseteq params /\ params \subseteq keywords
\* names bound at module level in openai_utils.py (lines 3-6, 17, 20, 26)
openai_utils_globals == {"os", "logging", "OpenAI", "APIConnectionError", "APIStatusError",
                         "RateLimitError", "json", "LOG_LEVEL", "logger", "OPENAI_API_KEY",
                         "openai_client"}

(***************************************************************************)
(* Summarization: openai_utils.generate_summary                            *)
(***************************************************************************)
\* a JSON value that is not an object is tagged with its Python type
NotADict(pytype) == [pytype |-> pytype]
IsDict(x) == "pytype" \notin DOMAIN x

SetItem(d, k, v) == [x \in (DOMAIN d) \cup {k} |-> IF x = k THEN v ELSE d[x]]

APIError == "<APIError>"
ModelOutputs == {"not json", "full", "no_meeting_summary", "no_overview",
                 "topic_without_timestamp", "action_without_responsible",
                 "summary_not_object", "array"}

IsJSON(out) == out # "not json"

ModelShare == [play_url |-> "https://model.invalid/play", password |-> "model-password"]
ModelDetails == [title |-> "Title by model", date_time |-> <<"someday">>,
                 host_email |-> "model@example.com", meeting_id |-> "m-model",
                 duration |-> "1"]
FullTopics == <<[topic |-> "Roadmap", timestamp |-> "00:01"]>>
FullActions == <<[action_item |-> "Ship Q3 plan", responsible |-> "Ann"]>>

\* json.loads(summary_text) for the outputs that are JSON
ParsedOutput(out) ==
    CASE out = "full" ->
            [meeting_details |-> ModelDetails, share_details |-> ModelShare,
             meeting_summary |-> [summary_overview |-> "Roadmap agreed",
                                  main_topics |-> FullTopics,
                                  action_items |-> FullActions]]
      [] out = "no_meeting_summary" ->
            [meeting_details |-> ModelDetails, share_details |-> ModelShare]
      [] out = "no_overview" ->
            [meeting_summary |-> [main_topics |-> FullTopics, action_items |-> FullActions]]
      [] out = "topic_without_timestamp" ->
            [meeting_summary |-> [summary_overview |-> "Roadmap agreed",
                                  main_topics |-> <<[topic |-> "Roadmap"]>>,
                                  action_items |-> FullActions]]
      [] out = "action_without_responsible" ->
            [meeting_summary |-> [summary_overview |-> "Roadmap agreed",
                                  main_topics |-> FullTopics,
                                  action_items |-> <<[action_item |-> "Ship Q3 plan"]>>]]
      [] out = "summary_not_object" ->
            [meeting_summary |-> NotADict("str")]
      [] OTHER -> NotADict("list")

\* openai_utils.py 184-209; out is what the chat completion returned
generate_summary(out, p_title, p_host_email, p_meeting_id, p_date, p_time, p_duration) ==
    IF out = APIError THEN EmptyDict                \* except (APIConnectionError, ...)
    ELSE IF ~IsJSON(out) THEN EmptyDict             \* except json.JSONDecodeError
    ELSE IF ~IsDict(ParsedOutput(out)) THEN EmptyDict  \* item assignment: except Exception
    ELSE SetItem(ParsedOutput(out), "meeting_details",
                 [title |-> p_title,
                  date_time |-> <<p_date, " at ", p_time>>,
                  host_email |-> p_host_email,
                  meeting_id |-> p_meeting_id,
                  duration |-> p_duration])

\* app.py 157-175
PlaceholderSummary(d, p_participants) ==
    [meeting_details |-> [title |-> meeting_topic(d),
                          date_time |-> <<meeting_date(d), " at ", meeting_time(d)>>,
                          host_email |-> host_email(d),
                          meeting_id |-> meeting_id(d),
                          participants |-> p_participants,
                          duration |-> duration(d)],
     share_details |-> [play_url |-> "No play URL available.",
                        password |-> "No password available."],
     meeting_summary |-> [summary_overview |-> "No overview available.",
                          main_topics |-> <<>>,
                          action_items |-> <<>>]]

\* app.py 178-181
ShareDetails(d, p_recording_url) ==
    [play_url |-> p_recording_url,
     password |-> Get(recording_info(d), "play_passcode", "No password available.")]

(***************************************************************************)
(* Channel routing: openai_utils.determine_slack_channel                   *)
(***************************************************************************)
\* what the chat model may answer (after .strip())
RouterResponses == {"C0000001", "C0000002", "C9999999", "None", "none",
                    "Post it to C0000002", "general"}

\* re.match(r'^(C[A-Z0-9]{7,})$', raw)
MatchesChannelId(raw) == raw \in {"C0000001", "C0000002", "C9999999"}
\* raw.lower() == 'none'
IsNoneWord(raw) == raw \in {"None", "none"}
\* re.search(r'(C[A-Z0-9]{7,})', raw)
EmbeddedChannelId(raw) == IF raw = "Post it to C0000002" THEN "C0000002" ELSE None

\* openai_utils.py 68-123; raw is what the chat completion returned
determine_slack_channel(p_summary, raw) ==
    IF ~IsDict(p_summary) THEN None                  \* .get on a non-dict: except Exception
    ELSE IF raw = APIError THEN None                 \* except (APIConnectionError, ...)
    ELSE IF "re" \notin openai_utils_globals THEN None   \* NameError: except Exception
    ELSE IF MatchesChannelId(raw) THEN raw
    ELSE IF IsNoneWord(raw) THEN None
    ELSE EmbeddedChannelId(raw)

(***************************************************************************)
(* Slack: slack_utils.py                                                   *)
(***************************************************************************)
DEFAULT_CHANNEL_NAME == "bot-lost-meeting-recordings"

General == [id |-> "C0000001", name |-> "general"]
Roadmap == [id |-> "C0000002", name |-> "roadmap"]
DefaultChannel == [id |-> "C0000009", name |-> DEFAULT_CHANNEL_NAME]
\* the channel conversations_create makes
CreatedChannel == [id |-> "C0000010", name |-> DEFAULT_CHANNEL_NAME]

ChannelIds(chs) == {c.id : c \in chs}

\* a workspace channel whose name Slack shows with capitals
MixedCaseChannel == [id |-> "C0000008", name |-> "Bot-Lost-Meeting-Recordings"]

\* str.lower() on a channel name
lower(name) ==
    CASE name = "Bot-Lost-Meeting-Recordings" -> "bot-lost-meeting-recordings"
      [] name = "MP4" -> "mp4"
      [] OTHER -> name

\* get_all_public_channels(): the workspace's channels with their names in
\* lower case, or [] on any error
get_all_public_channels(chs, list_ok) ==
    IF list_ok THEN {[id |-> c.id, name |-> lower(c.name)] : c \in chs} ELSE {}

\* the for loop of slack_utils.py 129-132 and 144-146
FindByName(public_channels, name) ==
    IF \E c \in public_channels : c.name = name
    THEN (CHOOSE c \in public_channels : c.name = name).id
    ELSE None

\* the scripted answers of the chat model and of chat_postMessage
Fixtures == [summary : ModelOutputs \cup {APIError},
             router  : {r \in RouterResponses : r \in {"C0000002", "C9999999", "none"}}
                          \cup {APIError},
             post    : {"ok", "error"}]

(***************************************************************************)
(* Inbound requests                                                        *)
(***************************************************************************)
ZOOM_WEBHOOK_SECRET_TOKEN == "zoom-secret"
SigHeader == "x-zm-signature"
TsHeader == "x-zm-request-timestamp"

\* the header sets a sender may attach to body b at time t: signed over the
\* body as sent with the shared secret or with another key, fresh or stale,
\* or with one of the two headers missing
HeaderSets(b, t) ==
    {(SigHeader :> ExpectedSignature(k, ts, b)) @@ (TsHeader :> ts) :
        k \in {ZOOM_WEBHOOK_SECRET_TOKEN, "attacker-key"}, ts \in {t, t - 301}}
    \cup {(TsHeader :> t)}
    \cup {(SigHeader :> ExpectedSignature(ZOOM_WEBHOOK_SECRET_TOKEN, t, b))}

Requests(t) ==
    UNION {{[body |-> b, headers |-> h] : h \in HeaderSets(b, t)} : b \in BodyTexts}

\* request.headers.get(name) is None or ''
HeaderMissing(h, name) == name \notin DOMAIN h

(***************************************************************************)
(* Recording download: zoom_utils.download_recording under tenacity.retry  *)
(***************************************************************************)
\* urlparse(download_url): scheme, netloc and path; all empty for None
urlparse(download_url) ==
    CASE download_url = "https://zoom.us/rec/play.mp4" ->
            [scheme |-> "https", netloc |-> "zoom.us", path |-> "/rec/play.mp4"]
      [] download_url = "https://zoom.us/rec/audio.m4a" ->
            [scheme |-> "https", netloc |-> "zoom.us", path |-> "/rec/audio.m4a"]
      [] download_url = "https://zoom.us/rec/chat.txt" ->
            [scheme |-> "https", netloc |-> "zoom.us", path |-> "/rec/chat.txt"]
      [] download_url = "https://zoom.us/rec/play.MP4" ->
            [scheme |-> "https", netloc |-> "zoom.us", path |-> "/rec/play.MP4"]
      [] download_url = "https://zoom.us/rec/play" ->
            [scheme |-> "https", netloc |-> "zoom.us", path |-> "/rec/play"]
      [] download_url = "https://zoom.us/rec/play.mp4?access=1" ->
            [scheme |-> "https", netloc |-> "zoom.us", path |-> "/rec/play.mp4"]
      [] download_url = "zoom.us/rec/play.mp4" ->
            [scheme |-> "", netloc |-> "", path |-> "zoom.us/rec/play.mp4"]
      [] download_url = "//zoom.us/rec/play.mp4" ->
            [scheme |-> "", netloc |-> "zoom.us", path |-> "/rec/play.mp4"]
      [] download_url = "https:///rec/play.mp4" ->
            [scheme |-> "https", netloc |-> "", path |-> "/rec/play.mp4"]
      [] download_url = "https://zoom.us" ->
            [scheme |-> "https", netloc |-> "zoom.us", path |-> ""]
      [] OTHER -> [scheme |-> "", netloc |-> "", path |-> ""]

\* a check of the scheme alone
is_valid_download_url_schemeonly(download_url) ==
    urlparse(download_url).scheme # ""

\* zoom_utils.py 124-139
is_valid_download_url(download_url) ==
    LET parsed_url == urlparse(download_url)
    IN  parsed_url.scheme # "" /\ parsed_url.netloc # "" /\ parsed_url.path # ""

\* os.path.splitext(path)[1].lstrip('.')
splitext(path) ==
    CASE path \in {"/rec/play.mp4", "zoom.us/rec/play.mp4"} -> "mp4"
      [] path = "/rec/play.MP4" -> "MP4"
      [] path = "/rec/audio.m4a" -> "m4a"
      [] path = "/rec/chat.txt" -> "txt"
      [] OTHER -> ""

\* zoom_utils.py 171-178: the suffix of the path, 'mp4' if it has none
file_extension(download_url) ==
    LET ext == splitext(urlparse(download_url).path)
    IN  IF ext = "" THEN "mp4" ELSE ext

supported_extensions == {"mp4", "m4a", "mov"}

\* what requests.get(stream=True) (zoom_utils.py 167-168) can meet before it
\* hands over the response: the connection fails, the server answers an error
\* status (raise_for_status raises HTTPError), or the headers of a 200 arrive
HeaderAnswers == {"200", "ConnectionError", "HTTPError"}

\* what the reading of the body into the file (zoom_utils.py 188-191) can
\* meet: the body breaks off, the local write fails, or all of it is written
BodyAnswers == {"200", "ChunkedEncodingError", "OSError"}

\* the subclasses of requests.exceptions.RequestException among them
RequestException == {"ConnectionError", "HTTPError", "ChunkedEncodingError"}

\* stop=stop_after_attempt(3)
stop_after_attempt == 3

\* wait=wait_exponential(multiplier=1, min=4, max=10): the seconds tenacity
\* sleeps after failed attempt attempt_number
wait_exponential(attempt_number) ==
    LET exp == 2 ^ (attempt_number - 1)
    IN  IF exp < 4 THEN 4 ELSE IF exp > 10 THEN 10 ELSE exp

\* the n-th name the temporary directory can give a file with this suffix
TempName(n, suffix) == "/tmp/tmp" \o ToString(n) \o "." \o suffix

\* tempfile.NamedTemporaryFile(delete=False, suffix=...): a new file, under a
\* name that no file of existing has
NamedTemporaryFile(suffix, existing) ==
    TempName(CHOOSE n \in 1..(Cardinality(existing) + 1) :
                /\ TempName(n, suffix) \notin existing
                /\ \A m \in 1..(n - 1) : TempName(m, suffix) \in existing,
             suffix)

\* zoom_utils.py 167-187: the body once requests.get has answered.  An
\* exception is re-raised (line 197), an unsupported suffix returns None, and
\* otherwise the temporary file is created, with the body still to be read
download_recording_responded(download_url, answer, existing) ==
    IF answer # "200"
    THEN [raised |-> answer, returns |-> FALSE, created |-> None]
    ELSE IF lower(file_extension(download_url)) \notin supported_extensions
    THEN [raised |-> "none", returns |-> TRUE, created |-> None]
    ELSE [raised |-> "none", returns |-> FALSE,
          created |-> NamedTemporaryFile(file_extension(download_url), existing)]

\* zoom_utils.py 188-200: the body is read into the file of this attempt.  A
\* RequestException is re-raised (line 197), another exception returns None
\* (line 200), and a body read to its end returns the file's name (line 194)
download_recording_streamed(name, answer) ==
    IF answer = "ChunkedEncodingError" THEN [raised |-> answer, result |-> None]
    ELSE IF answer = "OSError" THEN [raised |-> "none", result |-> None]
    ELSE [raised |-> "none", result |-> name]

\* retry=retry_if_exception_type(requests.exceptions.RequestException)
retry_if_exception_type(raised) == raised \in RequestException

\* the tenacity loop (zoom_utils.py 141-145) after attempt attempt_number
\* of the body ended with raised: after a RequestException tenacity sleeps and
\* runs the body again, unless the stop condition is met: then it raises
\* RetryError.  Anything else leaves the loop as it is.
retry(raised, attempt_number) ==
    LET again == retry_if_exception_type(raised)
    IN  [raised |-> IF ~again THEN raised
                    ELSE IF attempt_number >= stop_after_attempt THEN "RetryError"
                    ELSE "none",
         sleeps |-> again /\ attempt_number < stop_after_attempt]

(***************************************************************************)
(* The handler app.zoom_webhook, one action per blocking call of a stage    *)
(***************************************************************************)
NoResponse == [status |-> 0, message |-> ""]

\* return jsonify({'message': message}), status
Return(status, message) ==
    [pc |-> "done", response |-> [status |-> status, message |-> message], fault |-> "none"]
\* a handler without the outer except: the exception leaves the handler and
\* no response is made by it
Caught_reraised(exc) ==
    [pc |-> "done", response |-> [status |-> 0, message |-> ""], fault |-> exc]

\* except Exception (app.py 239-241)
Caught(exc) ==
    [pc |-> "done", response |-> [status |-> 500, message |-> "Internal server error."],
     fault |-> exc]
Goto(p) == [pc |-> p, response |-> NoResponse, fault |-> "none"]
Finish(o) == pc' = o.pc /\ response' = o.response /\ fault' = o.fault

\* the module globals as zoom_utils.py 57-58 sets them; nothing under test
NoToken == [value |-> None, expires_at |-> 0]
NothingReturned == [value |-> None, expires_at |-> 0, returned_at |-> 0]
MoreIdle ==
    /\ threads = <<>>
    /\ listing = <<>>
UnitsIdle ==
    /\ ZOOM_ACCESS_TOKEN = NoToken
    /\ ZOOM_TOKEN_EXPIRY = 0
    /\ access_token = NothingReturned
    /\ headers = [raised |-> "not called", Authorization |-> NothingReturned]
    /\ callers = <<>>
    /\ MoreIdle

InitHandler ==
    /\ now = 1700000000
    /\ request \in Requests(now)
    /\ channels \in {{General, Roadmap}, {General, Roadmap, DefaultChannel}}
    /\ pc = "received"
    /\ data = <<>>
    /\ recording_url = None
    /\ download_token = None
    /\ participants = <<>>
    /\ recording_file_path = None
    /\ transcript = None
    /\ fixture \in Fixtures
    /\ meeting_summary = EmptyDict
    /\ slack_channel = None
    /\ channel_id = None
    /\ recording_summary = <<>>
    /\ success = FALSE
    /\ files = {}
    /\ posts = <<>>
    /\ calls = <<>>
    /\ fault = "none"
    /\ response = NoResponse
    /\ v_in = <<>>
    /\ v_out = FALSE
    /\ attempts = <<>>
    /\ temp_file = None
    /\ UnitsIdle

\* app.py 55-74: parse the body, read the headers, verify the signature
zoom_webhook_validate ==
    /\ pc = "received"
    /\ IF ~json_valid(request.body)
       THEN /\ data' = data
            /\ Finish(Caught("BadRequest"))         \* get_json() raises
       ELSE LET d == json_loads(request.body)
                payload == json_dumps(d)
            IN  /\ data' = d
                /\ Finish(
                    IF d = <<>>
                    THEN Return(400, "Invalid request: No data provided")
                    ELSE IF HeaderMissing(request.headers, SigHeader)
                            \/ HeaderMissing(request.headers, TsHeader)
                    THEN Return(400, "Invalid request: Missing signature or timestamp headers.")
                    ELSE IF ~validate_zoom_webhook(ZOOM_WEBHOOK_SECRET_TOKEN,
                                                   request.headers[SigHeader],
                                                   request.headers[TsHeader], payload)
                    THEN Return(401, "Unauthorized")
                    ELSE Goto("verified"))
    /\ UNCHANGED <<request, now, recording_url, download_token, participants,
                   recording_file_path, temp_file, transcript, fixture, meeting_summary,
                   slack_channel, channel_id, recording_summary, success, files,
                   channels, posts, calls, v_in, v_out, attempts, unitVars>>

\* the stage without the test of the event tag (app.py 77): every verified
\* event is processed as a completed recording
zoom_webhook_select_anyevent ==
    /\ pc = "verified"
    /\ LET sel == SelectedFile(recording_files(data))
           o == IF ~HasRecordingInfo(data)
                THEN [pc |-> "done", fault |-> "KeyError",
                      response |-> [status |-> 500, message |-> "Internal server error."]]
                ELSE IF Falsy(meeting_id(data)) \/ Falsy(meeting_uuid(data))
                     \/ recording_files(data) = <<>>
                     \/ Falsy(sel.recording_url) \/ Falsy(sel.download_token)
                THEN [pc |-> "done", fault |-> "none",
                      response |-> [status |-> 400, message |-> "Invalid request"]]
                ELSE [pc |-> "selected", fault |-> "none",
                      response |-> [status |-> 0, message |-> ""]]
       IN  /\ pc' = o.pc /\ response' = o.response /\ fault' = o.fault
           /\ recording_url' = IF o.pc = "selected" THEN sel.recording_url ELSE recording_url
           /\ download_token' = IF o.pc = "selected" THEN sel.download_token ELSE download_token
    /\ UNCHANGED <<request, now, data, participants,
                   recording_file_path, temp_file, transcript, fixture, meeting_summary,
                   slack_channel, channel_id, recording_summary, success, files,
                   channels, posts, calls, v_in, v_out, attempts, unitVars>>

\* app.py 76-110: dispatch on the event tag and pick the recording file
zoom_webhook_select ==
    /\ pc = "verified"
    /\ LET sel == SelectedFile(recording_files(data))
           o == IF DictGet(data, "event", None) # "recording.completed"
                THEN Return(200, "Event received")
                ELSE IF ~HasRecordingInfo(data)
                THEN Caught("KeyError")              \* data['payload']['object']
                ELSE IF Falsy(meeting_id(data)) \/ Falsy(meeting_uuid(data))
                THEN Return(400, "Invalid request: Missing meeting ID or UUID")
                ELSE IF recording_files(data) = <<>>
                THEN Return(200, "No recordings available in payload.")
                ELSE IF Falsy(sel.recording_url) \/ Falsy(sel.download_token)
                THEN Return(400, "Recording URL or download token is missing.")
                ELSE Goto("selected")
       IN  /\ Finish(o)
           /\ recording_url' = IF o.pc = "selected" THEN sel.recording_url ELSE recording_url
           /\ download_token' = IF o.pc = "selected" THEN sel.download_token ELSE download_token
    /\ UNCHANGED <<request, now, data, participants,
                   recording_file_path, temp_file, transcript, fixture, meeting_summary,
                   slack_channel, channel_id, recording_summary, success, files,
                   channels, posts, calls, v_in, v_out, attempts, unitVars>>

\* get_meeting_participants is imported by app.py and defined nowhere in the
\* repository: per the design it returns the participants, or none on error
ParticipantsData == {<<>>, <<[user_email |-> "ann@example.com"], [name |-> "Bob"]>>}

\* app.py 121-130
zoom_webhook_participants ==
    /\ pc = "selected"
    /\ \E participants_data \in ParticipantsData :
          LET emails == SelectSeq(participants_data,
                                  LAMBDA q : ~Falsy(Get(q, "user_email", None)))
          IN  participants' =
                IF emails = <<>> THEN <<"Unknown Participant">>
                ELSE [i \in 1..Len(emails) |-> emails[i].user_email]
    /\ calls' = Append(calls, "get_meeting_participants")
    /\ Finish(Goto("download"))
    /\ UNCHANGED <<request, now, data, recording_url, download_token,
                   recording_file_path, temp_file, transcript, fixture, meeting_summary,
                   slack_channel, channel_id, recording_summary, success, files,
                   channels, posts, v_in, v_out, attempts, unitVars>>

\* the stage without the test of recording_file_path (app.py 134): a run
\* whose download returned None goes on to transcription
download_returned_unchecked(result) == Goto("transcribe")

\* app.py 134-136: if not recording_file_path
download_returned(result) ==
    IF result = None THEN Return(400, "Failed to download recording.")
    ELSE Goto("transcribe")

\* the positions of the handler inside the download stage (app.py 132-133)
DownloadPositions == {"download", "download_request", "download_body", "download_wait"}

\* zoom_utils.py 158-167: the body of download_recording is entered.  A URL
\* that is not well-formed returns None; otherwise the request is sent
download_recording_enters ==
    /\ Finish(IF ~is_valid_download_url(recording_url) THEN download_returned(None)
              ELSE Goto("download_request"))
    /\ UNCHANGED <<recording_file_path, temp_file, attempts, files>>

\* an attempt of download_recording is over, with an exception raised in the
\* body or a result returned by it: tenacity sleeps before the next attempt,
\* or the call raises or returns to the handler (app.py 133)
download_recording_attempt_ends(raised, result) ==
    LET after == retry(raised, Len(attempts) + 1)
    IN  /\ recording_file_path' = result
        /\ temp_file' = None
        /\ Finish(IF after.sleeps THEN Goto("download_wait")
                  ELSE IF after.raised # "none" THEN Caught(after.raised)
                  ELSE download_returned(result))

\* app.py 132-133: the call of download_recording, up to its first request
zoom_webhook_download ==
    /\ pc = "download"
    /\ calls' = Append(calls, "download_recording")
    /\ download_recording_enters
    /\ UNCHANGED <<request, now, data, recording_url, download_token, participants,
                   transcript, fixture, meeting_summary,
                   slack_channel, channel_id, recording_summary, success,
                   channels, posts, v_in, v_out, unitVars>>

\* the handler is inside download_recording, waiting in requests.get (line
\* 167): the request is answered.  The attempt ends here unless the answer
\* is a 200 for a supported suffix: then the temporary file is created (line
\* 187) and the body is still to be read
zoom_webhook_download_responded ==
    /\ pc = "download_request"
    /\ \E answer \in HeaderAnswers :
          LET got == download_recording_responded(recording_url, answer, files)
          IN  IF got.created # None
              THEN /\ temp_file' = got.created
                   /\ files' = files \cup {got.created}
                   /\ Finish(Goto("download_body"))
                   /\ UNCHANGED <<recording_file_path, attempts>>
              ELSE /\ attempts' = Append(attempts, answer)
                   /\ download_recording_attempt_ends(got.raised, None)
                   /\ UNCHANGED files
    /\ UNCHANGED <<request, now, data, recording_url, download_token, participants,
                   transcript, fixture, meeting_summary,
                   slack_channel, channel_id, recording_summary, success,
                   channels, posts, calls, v_in, v_out, unitVars>>

\* the handler is inside download_recording, reading the body from the
\* socket into temp_file (lines 188-191): the read ends, and the attempt
\* with it
zoom_webhook_download_streamed ==
    /\ pc = "download_body"
    /\ \E answer \in BodyAnswers :
          LET got == download_recording_streamed(temp_file, answer)
          IN  /\ attempts' = Append(attempts, answer)
              /\ download_recording_attempt_ends(got.raised, got.result)
    /\ UNCHANGED <<request, now, data, recording_url, download_token, participants,
                   transcript, fixture, meeting_summary,
                   slack_channel, channel_id, recording_summary, success, files,
                   channels, posts, calls, v_in, v_out, unitVars>>

\* the handler is inside download_recording, in tenacity's time.sleep after a
\* failed attempt: the sleep ends and the body is entered again
zoom_webhook_download_retry ==
    /\ pc = "download_wait"
    /\ now' = now + wait_exponential(Len(attempts))
    /\ download_recording_enters
    /\ UNCHANGED <<request, data, recording_url, download_token, participants,
                   transcript, fixture, meeting_summary,
                   slack_channel, channel_id, recording_summary, success,
                   channels, posts, calls, v_in, v_out, unitVars>>

\* app.py 138-142.  transcribe_audio returns the text, or "" on any error
zoom_webhook_transcribe ==
    /\ pc = "transcribe"
    /\ calls' = Append(calls, "transcribe_audio")
    /\ \E text \in {"Discussed Q3 roadmap", ""} :
          transcript' = IF Falsy(text) THEN "No transcription available." ELSE text
    /\ Finish(Goto("summarize"))
    /\ UNCHANGED <<request, now, data, recording_url, download_token, participants,
                   recording_file_path, temp_file, fixture, meeting_summary,
                   slack_channel, channel_id, recording_summary, success, files,
                   channels, posts, v_in, v_out, attempts, unitVars>>

\* app.py 144-184.  The call passes the keyword participants, which
\* generate_summary does not take: Python raises TypeError at the call
zoom_webhook_summarize ==
    /\ pc = "summarize"
    /\ IF ~KeywordsBind(generate_summary_call, generate_summary_params)
       THEN /\ Finish(Caught("TypeError"))
            /\ UNCHANGED <<meeting_summary, calls>>
       ELSE   LET returned == generate_summary(fixture.summary,
                                               meeting_topic(data), host_email(data),
                                               meeting_id(data), meeting_date(data),
                                               meeting_time(data), duration(data))
                  filled == IF DOMAIN returned = {}           \* if not meeting_summary
                            THEN PlaceholderSummary(data, participants)
                            ELSE returned
              IN  /\ meeting_summary' =
                        SetItem(filled, "share_details", ShareDetails(data, recording_url))
                  /\ calls' = Append(calls, "generate_summary")
                  /\ Finish(Goto("route"))                  \* app.py 186, never reached
    /\ UNCHANGED <<request, now, data, recording_url, download_token, participants,
                   recording_file_path, temp_file, transcript, fixture,
                   slack_channel, channel_id, recording_summary, success, files,
                   channels, posts, v_in, v_out, attempts, unitVars>>

(***************************************************************************)
(* Specifications                                                          *)
(***************************************************************************)
\* The handler's run ends at the summarizer call (app.py 145) at the latest:
\* the call never binds, so app.py 155-237 (placeholder, routing, message,
\* post, cleanup) is never reached and Next has no step for it.
Init == InitHandler

Next ==
    \/ zoom_webhook_validate
    \/ zoom_webhook_select
    \/ zoom_webhook_participants
    \/ zoom_webhook_download
    \/ zoom_webhook_download_responded
    \/ zoom_webhook_download_streamed
    \/ zoom_webhook_download_retry
    \/ zoom_webhook_transcribe
    \/ zoom_webhook_summarize

Spec == Init /\ [][Next]_vars

\* validate_zoom_webhook called on its own, on arguments drawn from small sets
VerifySecrets == {ZOOM_WEBHOOK_SECRET_TOKEN, "other-secret"}
VerifyTimes(t) == {t - 301, t - 300, t, t + 300, t + 301}
VerifyPayloads ==
    LET o == <<<<"event", "recording.completed">>, <<"payload", "pl_mp4">>>>
    IN  {json_dumps(o), json_dumps_spaced(o), <<"{", "}">>}

\* signatures a caller may present for (k, ts, p): the right one, one made
\* with another key, timestamp or body, and malformed variants of the right one
SignatureCandidates(k, ts, p, t) ==
    LET good == ExpectedSignature(k, ts, p)
    IN  {good}
        \cup {ExpectedSignature(k2, ts, p) : k2 \in VerifySecrets}
        \cup {ExpectedSignature(k, ts2, p) : ts2 \in VerifyTimes(t)}
        \cup {ExpectedSignature(k, ts, p2) : p2 \in VerifyPayloads}
        \cup {[good EXCEPT !.digest.tweak = 1],
              [good EXCEPT !.prefix = ""],
              [good EXCEPT !.prefix = "v1="],
              [good EXCEPT !.ascii = FALSE]}

VerifyInputs(t) ==
    UNION {{[signing_secret |-> k, signature |-> sig, timestamp |-> ts, payload |-> p] :
              sig \in SignatureCandidates(k, ts, p, t)} :
           k \in VerifySecrets, ts \in VerifyTimes(t), p \in VerifyPayloads}

InitVerify ==
    /\ now = 1700000000
    /\ v_in \in VerifyInputs(now)
    /\ v_out = FALSE
    /\ pc = "validate_call"
    /\ request = [body |-> <<>>, headers |-> <<>>]
    /\ channels = {}
    /\ fixture = [summary |-> APIError, router |-> APIError, post |-> "error"]
    /\ data = <<>>
    /\ recording_url = None
    /\ download_token = None
    /\ participants = <<>>
    /\ recording_file_path = None
    /\ transcript = None
    /\ meeting_summary = EmptyDict
    /\ slack_channel = None
    /\ channel_id = None
    /\ recording_summary = <<>>
    /\ success = FALSE
    /\ files = {}
    /\ posts = <<>>
    /\ calls = <<>>
    /\ fault = "none"
    /\ response = NoResponse
    /\ attempts = <<>>
    /\ temp_file = None
    /\ UnitsIdle

validate_zoom_webhook_call ==
    /\ pc = "validate_call"
    /\ v_out' = validate_zoom_webhook(v_in.signing_secret, v_in.signature,
                                      v_in.timestamp, v_in.payload)
    /\ pc' = "validate_returned"
    /\ UNCHANGED <<handlerVars, v_in, unitVars>>

SpecVerify == InitVerify /\ [][validate_zoom_webhook_call]_vars

\* the handler's variables while a function is exercised on its own
HandlerIdle ==
    /\ request = [body |-> <<>>, headers |-> <<>>]
    /\ channels = {}
    /\ fixture = [summary |-> APIError, router |-> APIError, post |-> "error"]
    /\ data = <<>>
    /\ recording_url = None
    /\ download_token = None
    /\ participants = <<>>
    /\ recording_file_path = None
    /\ transcript = None
    /\ meeting_summary = EmptyDict
    /\ slack_channel = None
    /\ channel_id = None
    /\ recording_summary = <<>>
    /\ success = FALSE
    /\ files = {}
    /\ posts = <<>>
    /\ calls = <<>>
    /\ fault = "none"
    /\ response = NoResponse
    /\ attempts = <<>>
    /\ temp_file = None
    /\ v_in = <<>>
    /\ v_out = FALSE

(***************************************************************************)
(* The OAuth token cache: zoom_utils.py 27-87.  A token is the pair of its *)
(* value and the time the provider stops honouring it.                     *)
(***************************************************************************)
\* the lifetimes (expires_in, seconds) the provider grants
ExpiresIn == {3600, 300}
\* the steps by which the clock advances between calls
Ticks == {1800, 3540}
\* how far the clock runs
MaxElapsed == 7200
StartTime0 == 1700000000

\* obtain_zoom_access_token(): (access_token, expires_in), or (None, None)
\* on an HTTP error or any exception
ObtainOutcomes == {[access_token |-> "token", expires_in |-> e] : e \in ExpiresIn}
                  \cup {[access_token |-> None, expires_in |-> 0]}

(***************************************************************************)
(* slack_utils.ensure_default_channel_exists run by concurrent callers     *)
(* against one workspace.  Every Slack API call is one step; Slack keeps   *)
(* channel names unique (conversations_create answers name_taken).         *)
(***************************************************************************)
NumCallers == 2
Callers == 1..NumCallers

\* a caller that has not started
CallerStart == [pc |-> "start", listed |-> {}, created |-> FALSE, name_taken |-> FALSE,
                relisted |-> "no", failed |-> FALSE, result |-> None]

\* Slack: the name is in use in the workspace
NameInUse(chs, name) == \E c \in chs : lower(c.name) = lower(name)

\* a caller that returns without looking at the list again after name_taken
ensure_refetch_skipped(c) ==
    /\ pc = "ensure"
    /\ callers[c].pc = "refetch"
    /\ callers' = [callers EXCEPT ![c].pc = "returned", ![c].result = CreatedChannel.id]
    /\ UNCHANGED <<handlerVars, pc, v_in, v_out, ZOOM_ACCESS_TOKEN, ZOOM_TOKEN_EXPIRY,
                   access_token, headers, moreVars>>

\* slack_utils.py 125-132: fetch the list and look for the default name
ensure_fetch(c) ==
    /\ pc = "ensure"
    /\ callers[c].pc = "start"
    /\ \E list_ok \in BOOLEAN :
          LET public_channels == get_all_public_channels(channels, list_ok)
              found == FindByName(public_channels, lower(DEFAULT_CHANNEL_NAME))
          IN  callers' = [callers EXCEPT
                            ![c].listed = public_channels,
                            ![c].failed = ~list_ok,
                            ![c].result = found,
                            ![c].pc = IF found # None THEN "returned" ELSE "create"]
    /\ UNCHANGED <<handlerVars, pc, v_in, v_out, ZOOM_ACCESS_TOKEN, ZOOM_TOKEN_EXPIRY,
                   access_token, headers, moreVars>>

\* slack_utils.py 135-149: conversations_create and the except clause up to
\* the second fetch
ensure_create(c) ==
    /\ pc = "ensure"
    /\ callers[c].pc = "create"
    /\ \/ /\ NameInUse(channels, DEFAULT_CHANNEL_NAME)       \* SlackApiError name_taken
          /\ callers' = [callers EXCEPT ![c].name_taken = TRUE, ![c].pc = "refetch"]
          /\ UNCHANGED channels
       \/ /\ ~NameInUse(channels, DEFAULT_CHANNEL_NAME)      \* created
          /\ channels' = channels \cup {CreatedChannel}
          /\ callers' = [callers EXCEPT ![c].created = TRUE, ![c].pc = "returned",
                                        ![c].result = CreatedChannel.id]
       \/ /\ callers' = [callers EXCEPT ![c].failed = TRUE,  \* any other error
                                        ![c].pc = "returned", ![c].result = None]
          /\ UNCHANGED channels
    /\ UNCHANGED <<request, now, data, recording_url, download_token, participants,
                   recording_file_path, temp_file, transcript, fixture, meeting_summary,
                   slack_channel, channel_id, recording_summary, success, files,
                   posts, calls, fault, response, attempts,
                   pc, v_in, v_out, ZOOM_ACCESS_TOKEN, ZOOM_TOKEN_EXPIRY,
                   access_token, headers, moreVars>>

\* slack_utils.py 143-149: after name_taken, fetch again and look again
ensure_refetch(c) ==
    /\ pc = "ensure"
    /\ callers[c].pc = "refetch"
    /\ \E relist_ok \in BOOLEAN :
          LET public_channels == get_all_public_channels(channels, relist_ok)
          IN  callers' = [callers EXCEPT
                            ![c].relisted = IF relist_ok THEN "ok" ELSE "failed",
                            ![c].failed = callers[c].failed \/ ~relist_ok,
                            ![c].result = FindByName(public_channels,
                                                     lower(DEFAULT_CHANNEL_NAME)),
                            ![c].pc = "returned"]
    /\ UNCHANGED <<handlerVars, pc, v_in, v_out, ZOOM_ACCESS_TOKEN, ZOOM_TOKEN_EXPIRY,
                   access_token, headers, moreVars>>

InitEnsure ==
    /\ request = [body |-> <<>>, headers |-> <<>>]
    /\ channels \in {{General, Roadmap}, {General, Roadmap, DefaultChannel},
                     {General, MixedCaseChannel}}
    /\ fixture = [summary |-> APIError, router |-> APIError, post |-> "error"]
    /\ data = <<>>
    /\ recording_url = None
    /\ download_token = None
    /\ participants = <<>>
    /\ recording_file_path = None
    /\ transcript = None
    /\ meeting_summary = EmptyDict
    /\ slack_channel = None
    /\ channel_id = None
    /\ recording_summary = <<>>
    /\ success = FALSE
    /\ files = {}
    /\ posts = <<>>
    /\ calls = <<>>
    /\ fault = "none"
    /\ response = NoResponse
    /\ attempts = <<>>
    /\ temp_file = None
    /\ v_in = <<>>
    /\ v_out = FALSE
    /\ now = StartTime0
    /\ pc = "ensure"
    /\ ZOOM_ACCESS_TOKEN = NoToken
    /\ ZOOM_TOKEN_EXPIRY = 0
    /\ access_token = NothingReturned
    /\ headers = [raised |-> "not called", Authorization |-> NothingReturned]
    /\ callers = [c \in Callers |-> CallerStart]
    /\ MoreIdle

NextEnsure ==
    \E c \in Callers :
        \/ ensure_fetch(c)
        \/ ensure_create(c)
        \/ ensure_refetch(c)

SpecEnsure == InitEnsure /\ [][NextEnsure]_vars

(***************************************************************************)
(* openai_utils.determine_slack_channel called on its own: fixture.router  *)
(* is the model's raw response, meeting_summary the summary argument,      *)
(* channels the public_channels argument, slack_channel the result.        *)
(***************************************************************************)
RouterSummaries ==
    {EmptyDict, NotADict("str"),
     [summary_overview |-> "Roadmap agreed"],
     [summary_overview |-> "Roadmap agreed", main_topics |-> FullTopics,
      action_items |-> FullActions],
     [main_topics |-> FullTopics, action_items |-> FullActions]}

InitRouter ==
    /\ fixture \in [summary : {APIError}, router : RouterResponses \cup {APIError},
                    post : {"error"}]
    /\ meeting_summary \in RouterSummaries
    /\ channels \in {{}, {General, Roadmap}, {General, Roadmap, DefaultChannel}}
    /\ pc = "router_call"
    /\ now = StartTime0
    /\ request = [body |-> <<>>, headers |-> <<>>]
    /\ data = <<>>
    /\ recording_url = None
    /\ download_token = None
    /\ participants = <<>>
    /\ recording_file_path = None
    /\ transcript = None
    /\ slack_channel = None
    /\ channel_id = None
    /\ recording_summary = <<>>
    /\ success = FALSE
    /\ files = {}
    /\ posts = <<>>
    /\ calls = <<>>
    /\ fault = "none"
    /\ response = NoResponse
    /\ attempts = <<>>
    /\ temp_file = None
    /\ v_in = <<>>
    /\ v_out = FALSE
    /\ UnitsIdle

determine_slack_channel_returns ==
    /\ pc = "router_call"
    /\ slack_channel' = determine_slack_channel(meeting_summary, fixture.router)
    /\ pc' = "router_returned"
    /\ UNCHANGED <<request, now, data, recording_url, download_token, participants,
                   recording_file_path, temp_file, transcript, fixture, meeting_summary,
                   channel_id, recording_summary, success, files,
                   channels, posts, calls, fault, response, attempts,
                   v_in, v_out, unitVars>>

SpecRouter == InitRouter /\ [][determine_slack_channel_returns]_vars

(***************************************************************************)
(* slack_utils.post_to_slack called on its own (lines 85-110): channel_id  *)
(* and recording_summary are its arguments, success is its result, posts   *)
(* the messages Slack has accepted.  The call waits in chat_postMessage.   *)
(***************************************************************************)
MaxPosts == 2

\* what chat_postMessage (slack_utils.py 97) can answer: Slack accepts a
\* message only for an existing channel; otherwise it answers with an error
\* (SlackApiError: channel_not_found, missing_scope, another reason) or the
\* request fails with another exception
ChatPostAnswers(chs, p_channel_id) ==
    IF p_channel_id \in ChannelIds(chs)
    THEN {"ok", "missing_scope", "ratelimited", "Exception"}
    ELSE {"channel_not_found"}

\* slack_utils.py 96-110: True when the message was posted, False on any error
post_to_slack(answer) == answer = "ok"

InitPost ==
    /\ pc = "post_idle"
    /\ now = StartTime0
    /\ request = [body |-> <<>>, headers |-> <<>>]
    /\ channels \in {{General}, {General, Roadmap}}
    /\ fixture = [summary |-> APIError, router |-> APIError, post |-> "error"]
    /\ data = <<>>
    /\ recording_url = None
    /\ download_token = None
    /\ participants = <<>>
    /\ recording_file_path = None
    /\ transcript = None
    /\ meeting_summary = EmptyDict
    /\ slack_channel = None
    /\ channel_id = None
    /\ recording_summary = <<>>
    /\ success = FALSE
    /\ files = {}
    /\ posts = <<>>
    /\ calls = <<>>
    /\ fault = "none"
    /\ response = NoResponse
    /\ attempts = <<>>
    /\ temp_file = None
    /\ v_in = <<>>
    /\ v_out = FALSE
    /\ UnitsIdle

\* post_to_slack(channel_id, message) is called, with the id of a channel of
\* the workspace or of none, and sends its chat.postMessage request (line 97)
post_to_slack_called ==
    /\ pc \in {"post_idle", "post_returned"}
    /\ Len(calls) < MaxPosts
    /\ channel_id' \in {General.id, Roadmap.id, "C9999999"}
    /\ recording_summary' \in {<<"hello">>, <<"*Meeting Summary:*">>}
    /\ calls' = Append(calls, "post_to_slack")
    /\ pc' = "post_wait"
    /\ UNCHANGED <<request, now, data, recording_url, download_token, participants,
                   recording_file_path, temp_file, transcript, fixture, meeting_summary,
                   slack_channel, success, files,
                   channels, posts, fault, response, attempts,
                   v_in, v_out, unitVars>>

\* chat_postMessage answers (lines 97-110): an accepted message is with
\* Slack, and the function returns True; on any error it returns False
post_to_slack_answered ==
    /\ pc = "post_wait"
    /\ \E answer \in ChatPostAnswers(channels, channel_id) :
          /\ posts' = IF answer = "ok"
                      THEN Append(posts, [channel |-> channel_id,
                                          text |-> recording_summary])
                      ELSE posts
          /\ success' = post_to_slack(answer)
    /\ pc' = "post_returned"
    /\ UNCHANGED <<request, now, data, recording_url, download_token, participants,
                   recording_file_path, temp_file, transcript, fixture, meeting_summary,
                   slack_channel, channel_id, recording_summary, files,
                   channels, calls, fault, response, attempts,
                   v_in, v_out, unitVars>>

NextPost ==
    \/ post_to_slack_called
    \/ post_to_slack_answered

SpecPost == InitPost /\ [][NextPost]_vars

(***************************************************************************)
(* zoom_utils.download_recording called with any URL: the handler stands   *)
(* at its call (app.py 133) with recording_url and download_token given.   *)
(***************************************************************************)
WellFormedUrls == {"https://zoom.us/rec/play.mp4", "https://zoom.us/rec/audio.m4a",
                   "https://zoom.us/rec/chat.txt", "https://zoom.us/rec/play.MP4",
                   "https://zoom.us/rec/play", "https://zoom.us/rec/play.mp4?access=1"}
\* no scheme and no host, no scheme, no host, no path, and None
MalformedUrls == {"zoom.us/rec/play.mp4", "//zoom.us/rec/play.mp4",
                  "https:///rec/play.mp4", "https://zoom.us", None}
DownloadUrls == WellFormedUrls \cup MalformedUrls

InitDownload ==
    /\ recording_url \in DownloadUrls
    /\ download_token = "file-token"
    /\ pc = "download"
    /\ now = StartTime0
    /\ request = [body |-> <<>>, headers |-> <<>>]
    /\ channels = {}
    /\ fixture = [summary |-> APIError, router |-> APIError, post |-> "error"]
    /\ data = <<>>
    /\ participants = <<>>
    /\ recording_file_path = None
    /\ transcript = None
    /\ meeting_summary = EmptyDict
    /\ slack_channel = None
    /\ channel_id = None
    /\ recording_summary = <<>>
    /\ success = FALSE
    /\ files = {}
    /\ posts = <<>>
    /\ calls = <<>>
    /\ fault = "none"
    /\ response = NoResponse
    /\ attempts = <<>>
    /\ temp_file = None
    /\ v_in = <<>>
    /\ v_out = FALSE
    /\ UnitsIdle

NextDownload ==
    \/ zoom_webhook_download
    \/ zoom_webhook_download_responded
    \/ zoom_webhook_download_streamed
    \/ zoom_webhook_download_retry

SpecDownload == InitDownload /\ [][NextDownload]_vars

(***************************************************************************)
(* zoom_utils.get_valid_zoom_access_token (lines 56-71) and                *)
(* get_zoom_headers (73-87) run by the threads of one worker.  The         *)
(* functions take no lock; a thread can be preempted between any two of    *)
(* its lines and waits in the refresh request, so every read and every     *)
(* write of the two globals is one step.                                   *)
(***************************************************************************)
NumThreads == 2
\* how far the clock runs while the threads are in the function
MaxRaceElapsed == 2

Threads == 1..NumThreads

\* the function a thread's caller called
Entries == {"get_valid_zoom_access_token", "get_zoom_headers"}

\* a thread outside the function
ThreadIdle == [pc |-> "idle", entry |-> "get_valid_zoom_access_token", current_time |-> 0,
               obtained |-> [access_token |-> None, expires_in |-> 0, issued_at |-> 0],
               stored |-> FALSE, returned |-> NoToken]

\* a thread that has entered get_valid_zoom_access_token
ThreadStart(entry) == [ThreadIdle EXCEPT !.pc = "line 65", !.entry = entry]

\* the provider issues a different token at every grant
GrantedToken(t) == "token-" \o ToString(t)

\* the token a thread was granted, with the time it stops being honoured
TokenOf(th) == [value |-> th.obtained.access_token,
                expires_at |-> th.obtained.issued_at + th.obtained.expires_in]

TokenSpecs == {"token_cache", "token_race"}

\* a caller calls get_valid_zoom_access_token(), directly or through
\* get_zoom_headers() (line 80)
thread_calls(t) ==
    /\ pc = "token_cache"
    /\ threads[t].pc \in {"idle", "returned"}
    /\ \E entry \in Entries : threads' = [threads EXCEPT ![t] = ThreadStart(entry)]
    /\ UNCHANGED <<handlerVars, pc, v_in, v_out, ZOOM_ACCESS_TOKEN, ZOOM_TOKEN_EXPIRY, access_token, headers, callers, listing>>

\* line 65: current_time = int(time.time())
thread_reads_clock(t) ==
    /\ pc \in TokenSpecs
    /\ threads[t].pc = "line 65"
    /\ threads' = [threads EXCEPT ![t].current_time = now, ![t].pc = "line 66"]
    /\ UNCHANGED <<handlerVars, pc, v_in, v_out, ZOOM_ACCESS_TOKEN, ZOOM_TOKEN_EXPIRY, access_token, headers, callers, listing>>

\* line 66, first operand: not ZOOM_ACCESS_TOKEN
thread_tests_token(t) ==
    /\ pc \in TokenSpecs
    /\ threads[t].pc = "line 66"
    /\ threads' = [threads EXCEPT ![t].pc = IF Falsy(ZOOM_ACCESS_TOKEN.value)
                                            THEN "line 67" ELSE "line 66 or"]
    /\ UNCHANGED <<handlerVars, pc, v_in, v_out, ZOOM_ACCESS_TOKEN, ZOOM_TOKEN_EXPIRY, access_token, headers, callers, listing>>

\* line 66, second operand: current_time >= ZOOM_TOKEN_EXPIRY
thread_tests_expiry(t) ==
    /\ pc \in TokenSpecs
    /\ threads[t].pc = "line 66 or"
    /\ threads' = [threads EXCEPT ![t].pc = IF threads[t].current_time >= ZOOM_TOKEN_EXPIRY
                                            THEN "line 67" ELSE "line 71"]
    /\ UNCHANGED <<handlerVars, pc, v_in, v_out, ZOOM_ACCESS_TOKEN, ZOOM_TOKEN_EXPIRY, access_token, headers, callers, listing>>

\* lines 67-68: obtain_zoom_access_token() answers, and "if access_token:"
thread_obtains(t) ==
    /\ pc \in TokenSpecs
    /\ threads[t].pc = "line 67"
    /\ \E obtained \in ObtainOutcomes :
          threads' = [threads EXCEPT
                        ![t].obtained = [access_token |-> IF Falsy(obtained.access_token)
                                                          THEN None ELSE GrantedToken(t),
                                         expires_in |-> obtained.expires_in,
                                         issued_at |-> now],
                        ![t].pc = IF Falsy(obtained.access_token)
                                  THEN "line 71" ELSE "line 69"]
    /\ UNCHANGED <<handlerVars, pc, v_in, v_out, ZOOM_ACCESS_TOKEN, ZOOM_TOKEN_EXPIRY, access_token, headers, callers, listing>>

\* line 69: ZOOM_ACCESS_TOKEN = access_token
thread_stores_token(t) ==
    /\ pc \in TokenSpecs
    /\ threads[t].pc = "line 69"
    /\ ZOOM_ACCESS_TOKEN' = TokenOf(threads[t])
    /\ threads' = [threads EXCEPT ![t].pc = "line 70"]
    /\ UNCHANGED <<handlerVars, pc, v_in, v_out, ZOOM_TOKEN_EXPIRY, access_token, headers, callers, listing>>

\* line 70: ZOOM_TOKEN_EXPIRY = current_time + expires_in - 60
thread_stores_expiry(t) ==
    /\ pc \in TokenSpecs
    /\ threads[t].pc = "line 70"
    /\ ZOOM_TOKEN_EXPIRY' = threads[t].current_time + threads[t].obtained.expires_in - 60
    /\ threads' = [threads EXCEPT ![t].stored = TRUE, ![t].pc = "line 71"]
    /\ UNCHANGED <<handlerVars, pc, v_in, v_out, ZOOM_ACCESS_TOKEN, access_token, headers, callers, listing>>

\* line 71: return ZOOM_ACCESS_TOKEN; in get_zoom_headers lines 81-87 follow:
\* EnvironmentError for no token, else the Authorization header
thread_returns(t) ==
    /\ pc \in TokenSpecs
    /\ threads[t].pc = "line 71"
    /\ threads' = [threads EXCEPT ![t].returned = ZOOM_ACCESS_TOKEN, ![t].pc = "returned"]
    /\ LET got == [value |-> ZOOM_ACCESS_TOKEN.value,
                   expires_at |-> ZOOM_ACCESS_TOKEN.expires_at,
                   returned_at |-> now]
       IN  IF threads[t].entry = "get_valid_zoom_access_token"
           THEN /\ access_token' = got
                /\ UNCHANGED headers
           ELSE /\ headers' = IF Falsy(got.value)
                              THEN [raised |-> "EnvironmentError",
                                    Authorization |-> NothingReturned]
                              ELSE [raised |-> "none", Authorization |-> got]
                /\ UNCHANGED access_token
    /\ UNCHANGED <<handlerVars, pc, v_in, v_out, ZOOM_ACCESS_TOKEN, ZOOM_TOKEN_EXPIRY, callers, listing>>

\* time passes between calls; what the last calls returned has been used
clock_advances ==
    /\ pc = "token_cache"
    /\ \A t \in Threads : threads[t].pc \in {"idle", "returned"}
    /\ \E d \in Ticks :
          /\ now + d <= StartTime0 + MaxElapsed
          /\ now' = now + d
    /\ threads' = [t \in Threads |-> ThreadIdle]
    /\ access_token' = NothingReturned
    /\ headers' = [raised |-> "not called", Authorization |-> NothingReturned]
    /\ UNCHANGED <<request, data, recording_url, download_token, participants,
                   recording_file_path, temp_file, transcript, fixture, meeting_summary,
                   slack_channel, channel_id, recording_summary, success, files,
                   channels, posts, calls, fault, response, attempts,
                   pc, v_in, v_out, ZOOM_ACCESS_TOKEN, ZOOM_TOKEN_EXPIRY, callers,
                   listing>>

\* a second passes while the threads run
race_clock_advances ==
    /\ pc = "token_race"
    /\ now + 1 <= StartTime0 + MaxRaceElapsed
    /\ now' = now + 1
    /\ UNCHANGED <<request, data, recording_url, download_token, participants,
                   recording_file_path, temp_file, transcript, fixture, meeting_summary,
                   slack_channel, channel_id, recording_summary, success, files,
                   channels, posts, calls, fault, response, attempts,
                   pc, v_in, v_out, unitVars>>

ThreadSteps ==
    \/ \E t \in Threads : thread_reads_clock(t)
    \/ \E t \in Threads : thread_tests_token(t)
    \/ \E t \in Threads : thread_tests_expiry(t)
    \/ \E t \in Threads : thread_obtains(t)
    \/ \E t \in Threads : thread_stores_token(t)
    \/ \E t \in Threads : thread_stores_expiry(t)
    \/ \E t \in Threads : thread_returns(t)

\* calls over a long time: the cache fills, expires and is refreshed
InitToken ==
    /\ HandlerIdle
    /\ now = StartTime0
    /\ pc = "token_cache"
    /\ ZOOM_ACCESS_TOKEN = NoToken
    /\ ZOOM_TOKEN_EXPIRY = 0
    /\ access_token = NothingReturned
    /\ headers = [raised |-> "not called", Authorization |-> NothingReturned]
    /\ callers = <<>>
    /\ listing = <<>>
    /\ threads = [t \in Threads |-> ThreadIdle]

NextToken ==
    \/ \E t \in Threads : thread_calls(t)
    \/ ThreadSteps
    \/ clock_advances

SpecToken == InitToken /\ [][NextToken]_vars

\* every thread is in one call, all on an empty cache within seconds
InitTokenRace ==
    /\ HandlerIdle
    /\ now = StartTime0
    /\ pc = "token_race"
    /\ ZOOM_ACCESS_TOKEN = NoToken
    /\ ZOOM_TOKEN_EXPIRY = 0
    /\ access_token = NothingReturned
    /\ headers = [raised |-> "not called", Authorization |-> NothingReturned]
    /\ callers = <<>>
    /\ listing = <<>>
    /\ threads \in [Threads -> {ThreadStart(entry) : entry \in Entries}]

NextTokenRace ==
    \/ ThreadSteps
    \/ race_clock_advances

SpecTokenRace == InitTokenRace /\ [][NextTokenRace]_vars

(***************************************************************************)
(* slack_utils.get_all_public_channels: the cursor loop (lines 33-58).     *)
(* listing.channels is the list built so far, kept as the set of its       *)
(* entries; listing.pages counts the conversations_list calls up to        *)
(* MaxPages and stays there.                                               *)
(***************************************************************************)
MaxPages == 3

\* what one conversations_list call can answer: some channels and the
\* cursor of the next page ("" on the last page)
PageChannels == SUBSET {General, Roadmap, DefaultChannel, MixedCaseChannel}
NextCursors == {"", "cursor-1", "cursor-2"}

\* "not cursor"
NoCursor(cursor) == cursor \in {None, ""}

\* one pass of the while loop: the call, the for loop over the page, and the
\* test of the cursor
get_all_public_channels_page ==
    /\ pc = "listing"
    /\ listing.pc = "loop"
    /\ \E page \in PageChannels, next_cursor \in NextCursors :
          listing' = [pc |-> IF NoCursor(next_cursor) THEN "returned" ELSE "loop",
                      cursor |-> next_cursor,
                      channels |-> listing.channels
                                     \cup {[id |-> c.id, name |-> lower(c.name)] : c \in page},
                      pages |-> IF listing.pages < MaxPages THEN listing.pages + 1
                                ELSE listing.pages]
    /\ UNCHANGED <<handlerVars, pc, v_in, v_out, ZOOM_ACCESS_TOKEN, ZOOM_TOKEN_EXPIRY,
                   access_token, headers, callers, threads>>

\* conversations_list raises: the except clauses return []
get_all_public_channels_error ==
    /\ pc = "listing"
    /\ listing.pc = "loop"
    /\ listing' = [listing EXCEPT !.pc = "returned", !.channels = {},
                                  !.pages = IF listing.pages < MaxPages
                                            THEN listing.pages + 1 ELSE listing.pages]
    /\ UNCHANGED <<handlerVars, pc, v_in, v_out, ZOOM_ACCESS_TOKEN, ZOOM_TOKEN_EXPIRY,
                   access_token, headers, callers, threads>>

InitListing ==
    /\ HandlerIdle
    /\ now = StartTime0
    /\ pc = "listing"
    /\ ZOOM_ACCESS_TOKEN = NoToken
    /\ ZOOM_TOKEN_EXPIRY = 0
    /\ access_token = NothingReturned
    /\ headers = [raised |-> "not called", Authorization |-> NothingReturned]
    /\ callers = <<>>
    /\ threads = <<>>
    /\ listing = [pc |-> "loop", cursor |-> None, channels |-> {}, pages |-> 0]

NextListing ==
    \/ get_all_public_channels_page
    \/ get_all_public_channels_error

\* every conversations_list call returns, so the loop keeps taking steps
SpecListing == InitListing /\ [][NextListing]_vars /\ WF_vars(NextListing)

(***************************************************************************)
(* Properties                                                              *)
(***************************************************************************)
Abs(x) == IF x < 0 THEN -x ELSE x

\* C1: replay window.  Whatever the secret, body and signature (the correct
\* one included), validate_zoom_webhook returns false when the timestamp
\* differs from the current time by more than 300 seconds.
C1_StaleTimestampRejected ==
    (pc = "validate_returned" /\ Abs(now - v_in.timestamp) > 300) => v_out = FALSE

\* the request went through app.py 55-74 and was not turned away there
PassedVerification ==
    /\ pc # "received"
    /\ json_valid(request.body)
    /\ data # <<>>
    /\ ~HeaderMissing(request.headers, SigHeader)
    /\ ~HeaderMissing(request.headers, TsHeader)
    /\ response.status # 401

\* C2: a request signed over the exact body string received, with both
\* headers present, passes verification whatever the whitespace and key
\* order of that body: it is not answered 401.
C2_RawBodySignatureAccepted ==
    (/\ pc # "received"
     /\ json_valid(request.body)
     /\ ~HeaderMissing(request.headers, SigHeader)
     /\ ~HeaderMissing(request.headers, TsHeader)
     /\ request.headers[SigHeader]
          = [prefix |-> "v0=", ascii |-> TRUE,
             digest |-> [key |-> ZOOM_WEBHOOK_SECRET_TOKEN, tweak |-> 0,
                         msg |-> [version |-> "v0:",
                                  timestamp |-> request.headers[TsHeader],
                                  payload |-> request.body]]])
    => response.status # 401

\* the value "v0=" + HMAC_SHA256(secret, "v0:" + timestamp + ":" + body)
C3_Signed(secret, timestamp, body) ==
    [prefix |-> "v0=", ascii |-> TRUE,
     digest |-> [key |-> secret, tweak |-> 0,
                 msg |-> [version |-> "v0:", timestamp |-> timestamp, payload |-> body]]]

\* C3: for a timestamp inside the replay window, validate_zoom_webhook
\* returns true exactly when the supplied signature equals
\* "v0=" + HMAC_SHA256(secret, "v0:" + timestamp + ":" + body).
C3_AcceptsExactlyExpected ==
    (pc = "validate_returned" /\ Abs(now - v_in.timestamp) <= 300)
    => (v_out <=> v_in.signature
                    = C3_Signed(v_in.signing_secret, v_in.timestamp, v_in.payload))

\* C3 witness: a correctly signed request inside the window was accepted.
C3_Witness ==
    /\ pc = "validate_returned"
    /\ Abs(now - v_in.timestamp) <= 300
    /\ v_in.signature = C3_Signed(v_in.signing_secret, v_in.timestamp, v_in.payload)
    /\ v_out = TRUE

InCalls(name) == \E i \in 1..Len(calls) : calls[i] = name
\* C4: guaranteed cleanup.  When download_recording produced a local file,
\* that file is gone by the time the handler has returned its response, on
\* every exit path.
C4_DownloadedFileDeleted ==
    (pc = "done" /\ recording_file_path # None) => recording_file_path \notin files

\* C5: when the channel router names an id that is not among the known
\* channels, the id is rejected and the message goes to the default channel;
\* no message goes to an unknown channel id.
C5_UnknownIdGoesToDefault ==
    (/\ pc = "done"
     /\ recording_file_path # None
     /\ fixture.router = "C9999999"
     /\ fixture.router \notin ChannelIds(channels)
     /\ fixture.post = "ok"
     /\ DefaultChannel \in channels)
    => /\ \A i \in 1..Len(posts) : posts[i].channel \in ChannelIds(channels)
       /\ Len(posts) = 1
       /\ posts[1].channel = DefaultChannel.id

\* C6: when transcribe_audio fails on a downloaded recording, the pipeline
\* still reaches the delivery stage and the message it posts contains the
\* literal "No transcription available."
C6_PlaceholderTranscriptPosted ==
    (pc = "done" /\ transcript = "No transcription available.")
    => /\ InCalls("post_to_slack")
       /\ Contains(recording_summary, "No transcription available.")

\* C7: a verified recording.completed event whose file list has no entry of
\* a supported type (the list may be non-empty) is answered 200, and neither
\* download nor transcription is invoked.
C7_NoSupportedFileIs200 ==
    (/\ pc = "done"
     /\ PassedVerification
     /\ DictGet(data, "event", None) = "recording.completed"
     /\ HasRecordingInfo(data)
     /\ ~Falsy(meeting_id(data))
     /\ ~Falsy(meeting_uuid(data))
     /\ \A i \in 1..Len(recording_files(data)) :
           recording_files(data)[i].file_type \notin {"MP4", "M4A", "MOV"})
    => /\ response.status = 200
       /\ ~InCalls("download_recording")
       /\ ~InCalls("transcribe_audio")

\* C8: when generate_summary yields an empty summary (the model output is not
\* JSON, or the provider errors), the handler substitutes the placeholder
\* summary with all three keys, goes on to channel resolution and posting,
\* and answers 200.
C8_EmptySummaryIsSoftFailure ==
    (/\ pc = "done"
     /\ transcript # None
     /\ fixture.summary \in {"not json", APIError})
    => /\ {"meeting_details", "share_details", "meeting_summary"}
              \subseteq DOMAIN meeting_summary
       /\ InCalls("determine_slack_channel")
       /\ (channel_id # None => InCalls("post_to_slack") /\ response.status = 200)

\* C9: for a model output that parses as JSON and lacks keys, the handler
\* renders the message with placeholders and does not end in 500 over the
\* missing key.
C9_MissingKeysRendered ==
    (/\ pc = "done"
     /\ transcript # None
     /\ fixture.summary \in {"no_meeting_summary", "no_overview",
                             "topic_without_timestamp", "action_without_responsible"})
    => /\ fault # "KeyError"
       /\ response.status # 500
       /\ recording_summary # <<>>

\* the outcomes of a download request that are network failures, as opposed
\* to an answer of the server with an error status
TransientNetworkException == {"ConnectionError", "ChunkedEncodingError"}

\* C12: one call of download_recording issues at most 3 requests, every
\* request after the first follows a transient network exception of the one
\* before it, and after a third failed request the handler is told and runs
\* no further stage.
C12_AtMostThreeRequests ==
    /\ Len(attempts) <= 3
    /\ \A i \in 1..(Len(attempts) - 1) : attempts[i] \in TransientNetworkException
    /\ (Len(attempts) = 3 /\ attempts[3] # "200")
         => /\ pc = "done"
            /\ response.status \in {400, 500}
            /\ ~InCalls("transcribe_audio")
            /\ ~InCalls("generate_summary")

\* C13: when the first download request is answered with an HTTP error
\* status, download_recording makes no second request and fails.
C13_HttpErrorNotRetried ==
    (Len(attempts) >= 1 /\ attempts[1] = "HTTPError")
    => /\ Len(attempts) = 1
       /\ recording_file_path = None
       /\ pc = "done"

\* a returned token is usable: it has more than 60 seconds before its expiry
\* at the time it is returned
C14_Fresh(t) == t.returned_at < t.expires_at - 60

\* C14: the token cache fails closed.  A token returned by
\* get_valid_zoom_access_token, or put into the Authorization header by
\* get_zoom_headers, has more than 60 seconds left at that time; with a stale
\* cached token and a failed refresh no token is returned and
\* get_zoom_headers raises.
C14_TokenCacheFailsClosed ==
    /\ ~Falsy(access_token.value) => C14_Fresh(access_token)
    /\ headers.raised = "none" => C14_Fresh(headers.Authorization)

\* C15: a request whose signature is not the one the handler expects for it
\* is answered 401 and nothing is done for it: no stage is called, no request
\* for the recording is made, no file is written, no channel is created and
\* nothing is posted.
C15_RejectedHasNoEffect ==
    (/\ pc # "received"
     /\ json_valid(request.body)
     /\ data # <<>>
     /\ ~HeaderMissing(request.headers, SigHeader)
     /\ ~HeaderMissing(request.headers, TsHeader)
     /\ request.headers[SigHeader]
          # C3_Signed(ZOOM_WEBHOOK_SECRET_TOKEN, request.headers[TsHeader],
                      json_dumps(data)))
    => /\ pc = "done"
       /\ response = [status |-> 401, message |-> "Unauthorized"]
       /\ calls = <<>>
       /\ attempts = <<>>
       /\ files = {}
       /\ posts = <<>>
       /\ CreatedChannel \notin channels

\* C15 witness: a request signed with a key that is not the shared secret
\* was answered 401.
C15_Witness ==
    /\ pc = "done"
    /\ response.status = 401
    /\ request.headers[SigHeader].digest.key = "attacker-key"
    /\ calls = <<>>

\* C16: a request with a JSON body and without the signature header or
\* without the timestamp header is answered 401.
C16_MissingHeaderIs401 ==
    (/\ pc = "done"
     /\ json_valid(request.body)
     /\ data # <<>>
     /\ \/ HeaderMissing(request.headers, SigHeader)
        \/ HeaderMissing(request.headers, TsHeader))
    => response.status = 401

\* C17: a verified endpoint.url_validation event is answered 200 with the
\* token of the event in the response body, and no pipeline stage runs.
C17_UrlValidationEchoed ==
    (/\ pc = "done"
     /\ PassedVerification
     /\ DictGet(data, "event", None) = "endpoint.url_validation")
    => /\ response.status = 200
       /\ response.message = Get(PayloadValue(DictGet(data, "payload", None)),
                                 "plainToken", None)
       /\ calls = <<>>

\* C18: a verified event whose tag is neither recording.completed nor
\* endpoint.url_validation is answered 200 with the plain acknowledgement
\* and no pipeline stage runs for it.
C18_OtherEventAcknowledged ==
    (/\ PassedVerification
     /\ pc # "verified"
     /\ DictGet(data, "event", None)
          \notin {"recording.completed", "endpoint.url_validation"})
    => /\ pc = "done"
       /\ response = [status |-> 200, message |-> "Event received"]
       /\ calls = <<>>
       /\ attempts = <<>>
       /\ files = {}
       /\ posts = <<>>

\* C18 witness: a verified meeting.started event was acknowledged.
C18_Witness ==
    /\ pc = "done"
    /\ PassedVerification
    /\ DictGet(data, "event", None) = "meeting.started"
    /\ response.status = 200

\* C19: an exception raised while the handler processes an event ends the
\* run with the 500 response; the handler always ends with a response of
\* its own.
C19_ExceptionsBecome500 ==
    /\ fault # "none"
         => /\ pc = "done"
            /\ response = [status |-> 500, message |-> "Internal server error."]
    /\ pc = "done" => response.status \in {200, 400, 401, 500}

\* C19 witness: download_recording gave up after its third failed request and
\* the handler answered 500.
C19_Witness ==
    /\ pc = "done"
    /\ fault = "RetryError"
    /\ Len(attempts) = 3
    /\ response.status = 500

\* the channels of the workspace that carry the default name, whatever the case
C20_DefaultNamed(chs) == {ch \in chs : lower(ch.name) = lower(DEFAULT_CHANNEL_NAME)}

\* the list a caller fetched first did not hold the default channel
C20_FoundAbsent(k) == \A ch \in k.listed : ch.name # lower(DEFAULT_CHANNEL_NAME)

\* C20: ensure_default_channel_exists returns the id of a channel named like
\* the default (case-insensitively) or none; it creates only when its fetched
\* list lacks the channel; after name_taken it fetches again and returns the
\* existing id; concurrent callers that found the channel absent end with
\* the same id, and one channel is created.
C20_EnsureDefaultChannel ==
    /\ \A c \in Callers :
          LET k == callers[c]
          IN  /\ (k.pc = "returned" /\ k.result # None)
                   => \E ch \in C20_DefaultNamed(channels) : ch.id = k.result
              /\ k.created => C20_FoundAbsent(k)
              /\ (k.pc = "returned" /\ k.name_taken) => k.relisted # "no"
              /\ (k.pc = "returned" /\ k.relisted = "ok") => k.result # None
    /\ Cardinality({c \in Callers : callers[c].created}) <= 1
    /\ Cardinality(C20_DefaultNamed(channels)) <= 1
    /\ \A c, d \in Callers :
          (/\ callers[c].pc = "returned" /\ callers[d].pc = "returned"
           /\ C20_FoundAbsent(callers[c]) /\ C20_FoundAbsent(callers[d]))
          => /\ (callers[c].result # None /\ callers[d].result # None)
                   => callers[c].result = callers[d].result
             /\ (~callers[c].failed /\ ~callers[d].failed)
                   => callers[c].result = callers[d].result /\ callers[c].result # None

\* C20 witness: two callers both fetched a list without the default channel;
\* one created it, the other was answered name_taken, fetched again and
\* returned the same id.
C20_Witness ==
    \E c, d \in Callers :
        /\ c # d
        /\ callers[c].pc = "returned" /\ callers[c].created
        /\ callers[d].pc = "returned" /\ callers[d].name_taken
        /\ ~callers[d].failed
        /\ C20_FoundAbsent(callers[d])
        /\ callers[d].result = callers[c].result
        /\ callers[d].result # None

\* C23: when the selected recording file has a download_url and no
\* download_token of its own, and the meeting carries a download_token, the
\* event is not rejected and the download uses the meeting's token.
C23_MeetingTokenFallback ==
    (/\ PassedVerification
     /\ pc # "verified"
     /\ DictGet(data, "event", None) = "recording.completed"
     /\ HasRecordingInfo(data)
     /\ ~Falsy(SelectedFile(recording_files(data)).recording_url)
     /\ Falsy(SelectedFile(recording_files(data)).download_token)
     /\ ~Falsy(Get(recording_info(data), "download_token", None)))
    => /\ response.status # 400
       /\ download_token = Get(recording_info(data), "download_token", None)

\* the position of the first call of a stage in this run, 0 when not called
C24_First(name) ==
    IF InCalls(name) THEN CHOOSE i \in 1..Len(calls) :
                             calls[i] = name /\ \A j \in 1..(i - 1) : calls[j] # name
    ELSE 0

\* stage a was called before stage b
C24_Before(a, b) == InCalls(a) /\ C24_First(a) < C24_First(b)

\* C24: stage ordering.  Transcription is called only after download
\* returned a file, summarization only after transcription set the
\* transcript, routing only after summarization, the post only after routing
\* resolved a channel id; after a failed download none of them is called.
\* The handler stands at the transcription call only with a downloaded file,
\* and at the summarizer call (where its run ends in TypeError) only with
\* the file and the transcript.
C24_StageOrdering ==
    /\ pc = "transcribe"
         => InCalls("download_recording") /\ recording_file_path # None
    /\ (pc = "summarize" \/ fault = "TypeError")
         => /\ C24_Before("download_recording", "transcribe_audio")
            /\ recording_file_path # None
            /\ transcript # None
    /\ InCalls("transcribe_audio")
         => C24_Before("download_recording", "transcribe_audio")
            /\ recording_file_path # None
    /\ InCalls("generate_summary")
         => C24_Before("transcribe_audio", "generate_summary") /\ transcript # None
    /\ InCalls("determine_slack_channel")
         => C24_Before("generate_summary", "determine_slack_channel")
    /\ InCalls("post_to_slack")
         => C24_Before("determine_slack_channel", "post_to_slack") /\ channel_id # None
    /\ (InCalls("download_recording") /\ pc \notin DownloadPositions
            /\ recording_file_path = None)
         => /\ pc = "done"
            /\ ~InCalls("transcribe_audio")
            /\ ~InCalls("generate_summary")
            /\ ~InCalls("determine_slack_channel")
            /\ ~InCalls("post_to_slack")

\* C24 witness: a run went through download and transcription, in that
\* order, and ended at the summarizer call with the file and the transcript
\* at hand.
C24_Witness ==
    /\ pc = "done"
    /\ fault = "TypeError"
    /\ recording_file_path # None
    /\ transcript # None
    /\ C24_Before("download_recording", "transcribe_audio")
    /\ ~InCalls("determine_slack_channel")
    /\ ~InCalls("post_to_slack")

\* the mapping of the raw response: an exact id is itself, the word none is
\* no channel, anything else is the first id inside it when there is one
C25_Mapping(raw) ==
    IF raw = APIError THEN None
    ELSE IF raw \in {"C0000001", "C0000002", "C9999999"} THEN raw
    ELSE IF raw \in {"None", "none"} THEN None
    ELSE IF raw = "Post it to C0000002" THEN "C0000002"
    ELSE None

\* C25: determine_slack_channel returns the id for a response that is
\* exactly a channel id, no channel for "none" in any case, the first
\* embedded id for any other response that holds one, no channel otherwise,
\* and no channel on a provider error.
C25_RouterMapping ==
    (pc = "router_returned" /\ IsDict(meeting_summary))
    => slack_channel = C25_Mapping(fixture.router)

\* download_recording has returned or raised
DownloadEnded == pc \notin DownloadPositions

\* C26: download_recording makes no request for a URL that lacks a scheme, a
\* host or a path, and for a well-formed URL whose path has a suffix outside
\* {mp4, m4a, mov} it returns no path and creates no local file.
C26_UrlChecked ==
    /\ recording_url \in MalformedUrls
         => attempts = <<>> /\ recording_file_path = None /\ files = {}
    /\ recording_url = "https://zoom.us/rec/chat.txt"
         => recording_file_path = None /\ files = {}
    /\ (DownloadEnded /\ recording_url \in MalformedUrls \cup {"https://zoom.us/rec/chat.txt"})
         => pc = "done" /\ ~InCalls("transcribe_audio")

\* C26 witness: the call for a .txt URL made its request, returned no path
\* and left no file.
C26_Witness ==
    /\ pc = "done"
    /\ recording_url = "https://zoom.us/rec/chat.txt"
    /\ attempts = <<"200">>
    /\ response.status = 400
    /\ recording_file_path = None
    /\ files = {}

\* C29: when download_recording ends without returning a path, no file it
\* created is left on local storage.
C29_FailedDownloadLeavesNoFile ==
    (DownloadEnded /\ recording_file_path = None) => files = {}

\* C27: termination.  With every conversations_list call returning, the
\* cursor loop of get_all_public_channels ends, whatever pages the provider
\* returns.
C27_CursorLoopEnds == <>(listing.pc = "returned")

\* C28: when two concurrent get_valid_zoom_access_token calls have both
\* refreshed and returned, the cached token and the cached expiry come from
\* the same refresh, and the cached expiry is at most the true expiry of the
\* cached token minus 60 seconds.
C28_CacheIsOneRefresh ==
    (\A t \in Threads : threads[t].pc = "returned" /\ threads[t].stored)
    => /\ \E t \in Threads :
             /\ ZOOM_ACCESS_TOKEN = TokenOf(threads[t])
             /\ ZOOM_TOKEN_EXPIRY
                  = threads[t].current_time + threads[t].obtained.expires_in - 60
       /\ ZOOM_TOKEN_EXPIRY <= ZOOM_ACCESS_TOKEN.expires_at - 60

====
